---- MODULE Spec2Model ----
(***************************************************************************)
(* A model of the gestures application of zentrol: the GestureLog and      *)
(* PresentationSession tables, the log_gesture ingestion endpoint, the     *)
(* presentation_view page, the gesture-log REST resource with its          *)
(* session_stats action, and the setup_demo seeder.                        *)
(*                                                                         *)
(* Numbers are integers counted in the unit of their column (confidence in *)
(* hundredths, times in milliseconds, avg_latency_ms in tenths).           *)
(***************************************************************************)
EXTENDS Integers, Sequences, FiniteSets, TLC

VARIABLES
    GestureLog,            \* the gesture-log table: rows in the order of created_at
    PresentationSession,   \* the session table: a set of rows
    clock,                 \* the wall clock as read by the last writer
    uuids,                 \* how many uuid4() values have been drawn
    auth_user,             \* the usernames of the accounts that exist
    resp,                  \* the last request and its response
    procs                  \* the in-flight requests of the concurrent runs

vars == <<GestureLog, PresentationSession, clock, uuids, auth_user, resp, procs>>

\* ------------------------------------------------------------------ bounds

MaxLogs == 2
MaxSessions == 2
MaxRest == 3
MaxRows == 1
MaxReinserts == 1
MaxDemoRuns == 1
MaxSeedLogs == 1
MaxStatLogs == 3
MaxConcLogs == 2
MaxIngest == 1
MaxRaceLogs == 2

\* ------------------------------------------------------------------ values

\* A JSON scalar or a column value: t is its type, s its text, n its number.
Null == [t |-> "null", s |-> "", n |-> 0]
Absent == [t |-> "absent", s |-> "", n |-> 0]
Num(k) == [t |-> "num", s |-> "", n |-> k]
\* the number k + 0.5
NumHalf(k) == [t |-> "num", s |-> ".5", n |-> k]
Str(x) == [t |-> "str", s |-> x, n |-> 0]
\* the decimal text of the number k, as str(k) writes it and float() reads it
NumStr(k) == [t |-> "str", s |-> "digits", n |-> k]
\* str(uuid.uuid4()): the k-th value drawn
Uuid(k) == [t |-> "str", s |-> "uuid", n |-> k]
\* a text of k letters; every other text of the model has fewer than 50
Long(k) == [t |-> "str", s |-> "letters", n |-> k]

Users == {"alice", "bob"}
AnonymousUser == "AnonymousUser"
Requesters == Users \cup {AnonymousUser}
NoUser == "None"

is_authenticated(user) == user \in Users

\* request.user if request.user.is_authenticated else None
UserOrNone(user) == IF is_authenticated(user) THEN user ELSE NoUser

\* ------------------------------------------------------------------ request bodies

BodyFields ==
    {"session_id", "gesture_type", "confidence", "frame_count", "hand_x", "hand_y",
     "hand_z", "detection_time_ms", "frame_processing_time_ms", "browser",
     "screen_resolution"}

\* A request body: bytes that are no UTF-8, text that is no JSON, or the text
\* of a JSON array, scalar or object (obj: the members of the object).
EmptyObj == [f \in BodyFields |-> Absent]
Body(kind, obj) == [kind |-> kind, obj |-> obj]
ObjBody(obj) == Body("object", obj)

\* json.loads(request.body)
json_loads(body) ==
    CASE body.kind = "bad_utf8" -> [exc |-> "UnicodeDecodeError", data |-> body]
      [] body.kind = "bad_syntax" -> [exc |-> "JSONDecodeError", data |-> body]
      [] OTHER -> [exc |-> "", data |-> body]

\* data.get(key, default) on a dict
DataGet(data, key, default) ==
    IF data.obj[key] = Absent THEN default ELSE data.obj[key]

\* (a variant that passes no default at all, as data.get(key) would)
ViewDefaultDrop(field) == Null
\* the defaults log_gesture passes to data.get
ViewDefault(field) ==
    CASE field = "session_id" -> Str("anonymous")
      [] field = "gesture_type" -> Str("unknown")
      [] field = "confidence" -> Num(0)
      [] field = "frame_count" -> Num(1)
      [] field = "detection_time_ms" -> Num(0)
      [] field = "frame_processing_time_ms" -> Num(0)
      [] field = "browser" -> Str("")
      [] field = "screen_resolution" -> Str("")
      [] OTHER -> Null

\* ------------------------------------------------------------------ columns

CharColumns == {"session_id", "gesture_type", "browser", "screen_resolution", "user_agent"}
FloatColumns ==
    {"confidence", "hand_x", "hand_y", "hand_z", "detection_time_ms",
     "frame_processing_time_ms"}
IntColumns == {"frame_count"}
NullableColumns == {"hand_x", "hand_y", "hand_z"}
ValueColumns == CharColumns \cup FloatColumns \cup IntColumns

\* CharField: str(value) unless the value is a string or None
CharPrep(v) ==
    CASE v.t = "num" /\ v.s = "" -> NumStr(v.n)
      [] v.t = "num" -> [t |-> "str", s |-> "digits.5", n |-> v.n]
      [] OTHER -> v

\* FloatField: float(value); a text that is no number raises ValueError
FloatPrep(v) ==
    CASE v.t = "str" /\ v.s = "digits" -> Num(v.n)
      [] v.t = "str" /\ v.s = "digits.5" -> NumHalf(v.n)
      [] v.t = "str" -> [t |-> "error", s |-> "ValueError", n |-> 0]
      [] OTHER -> v

\* IntegerField: int(value); a float is truncated toward zero (k + 0.5 to k
\* when k >= 0, to k + 1 when k < 0), int("2.5") raises ValueError
IntPrep(v) ==
    CASE v.t = "num" /\ v.s = ".5" /\ v.n < 0 -> Num(v.n + 1)
      [] v.t = "num" -> Num(v.n)
      [] v.t = "str" /\ v.s = "digits" -> Num(v.n)
      [] v.t = "str" -> [t |-> "error", s |-> "ValueError", n |-> 0]
      [] OTHER -> v

get_prep_value(column, v) ==
    CASE column \in CharColumns -> CharPrep(v)
      [] column \in FloatColumns -> FloatPrep(v)
      [] column \in IntColumns -> IntPrep(v)

\* The exception an INSERT of these keyword arguments raises, "" when none.
InsertError(kwargs) ==
    IF \E c \in ValueColumns : get_prep_value(c, kwargs[c]).t = "error"
    THEN "ValueError"
    ELSE IF \E c \in ValueColumns \ NullableColumns : get_prep_value(c, kwargs[c]) = Null
    THEN "IntegrityError"
    ELSE ""

\* The GestureLog row objects.create(**kwargs) stores.
NewLogRow(id, user, kwargs, now) ==
    [c \in ValueColumns |-> get_prep_value(c, kwargs[c])]
        @@ [id |-> id, user |-> user, created_at |-> now]

\* the keyword arguments log_gesture builds from the body and the headers
LogKwargs(data, user_agent) ==
    [c \in ValueColumns |->
        IF c = "user_agent" THEN user_agent ELSE DataGet(data, c, ViewDefault(c))]

\* ------------------------------------------------------------------ sessions

\* The PresentationSession row objects.create(session_id=..., **defaults) stores.
NewSession(id, session_id, defaults, now) ==
    [id |-> id, user |-> defaults.user, session_id |-> CharPrep(session_id),
     current_slide |-> 0, total_slides |-> defaults.total_slides,
     is_fullscreen |-> FALSE, is_presenting |-> defaults.is_presenting,
     avg_latency_ms |-> defaults.avg_latency_ms,
     gesture_count |-> defaults.gesture_count,
     started_at |-> now, last_activity |-> now, ended_at |-> Null]

\* the model's field defaults, overridden by the defaults the caller passes
ViewSessionDefaults(user) ==
    [user |-> UserOrNone(user), total_slides |-> 0, is_presenting |-> FALSE,
     avg_latency_ms |-> 0, gesture_count |-> 0]

\* (a variant whose filter forgets the session_id)
SessionMatchesAny(table, key) == table
\* PresentationSession.objects.filter(session_id=key): None matches no row
SessionMatches(table, key) ==
    IF key = Null THEN {} ELSE {s \in table : s.session_id = CharPrep(key)}

\* (a variant without the unique constraint)
UniqueViolationNever(table, session_id) == FALSE
\* session_id is unique: an INSERT of a second row with it raises IntegrityError
UniqueViolation(table, session_id) ==
    \E s \in table : s.session_id = CharPrep(session_id)

\* (a variant that increments the stored count in the database, as an F()
\* expression would, instead of writing the object's count)
SessionSaveStored(table, obj, now) ==
    {s \in table : s.id # obj.id}
        \cup {[s EXCEPT !.gesture_count = s.gesture_count + 1, !.last_activity = now] :
                s \in {r \in table : r.id = obj.id}}
\* session.save(): every column of the row with this primary key is written
\* from the object in memory, and auto_now sets last_activity
SessionSave(table, obj, now) ==
    {s \in table : s.id # obj.id} \cup {[obj EXCEPT !.last_activity = now]}

\* (a variant that forgets the increment)
IncrementKeep(obj) == obj
\* session.gesture_count += 1 on the object in memory
Increment(obj) == [obj EXCEPT !.gesture_count = obj.gesture_count + 1]

\* (a variant that also assigns the requester to a row it fetches, as
\* update_or_create would)
GetOrCreateAdopt(table, session_id, defaults, id, now) ==
    LET found == SessionMatches(table, session_id)
    IN  IF found # {}
        THEN LET o == CHOOSE s \in found : TRUE
             IN  [created |-> FALSE, obj |-> [o EXCEPT !.user = defaults.user],
                  table |-> (table \ {o}) \cup {[o EXCEPT !.user = defaults.user]}]
        ELSE LET o == NewSession(id, session_id, defaults, now)
             IN  [created |-> TRUE, obj |-> o, table |-> table \cup {o}]
\* objects.get_or_create(session_id=..., defaults=...) run without interruption:
\* the row found, else the row created
GetOrCreate(table, session_id, defaults, id, now) ==
    LET found == SessionMatches(table, session_id)
    IN  IF found # {}
        THEN [created |-> FALSE, obj |-> CHOOSE s \in found : TRUE, table |-> table]
        ELSE LET o == NewSession(id, session_id, defaults, now)
             IN  [created |-> TRUE, obj |-> o, table |-> table \cup {o}]

\* ------------------------------------------------------------------ responses

Response(op, user, input, status, payload) ==
    [op |-> op, user |-> user, input |-> input, status |-> status, payload |-> payload]

NoResponse == Response("none", AnonymousUser, Null, 0, Null)

\* JsonResponse({'status': 'error', 'message': ...}, status=...)
ErrorPayload(message) == [status |-> "error", message |-> message]

\* A request in flight: where it stands (pc), what it asked (op, user, key),
\* the session object it holds in memory (obj), and its outcome.
Proc(pc, op, user, key, obj, status, outcome, log_id) ==
    [pc |-> pc, op |-> op, user |-> user, key |-> key, obj |-> obj, status |-> status,
     outcome |-> outcome, log_id |-> log_id]
Idle == Proc("idle", "none", AnonymousUser, Null, Null, 0, "", Null)
Procs == {"p1", "p2"}

Init ==
    /\ GestureLog = <<>>
    /\ PresentationSession = {}
    /\ clock = 0
    /\ uuids = 0
    /\ auth_user = Users
    /\ resp = NoResponse
    /\ procs = [p \in Procs |-> Idle]

\* ------------------------------------------------------------------ log_gesture

\* the outcome of the try block up to objects.create: the status of the early
\* return, 200 when the row is inserted
LogGestureStatus(body, user_agent) ==
    LET parsed == json_loads(body)
    IN  CASE parsed.exc = "JSONDecodeError" -> 400
          [] parsed.exc # "" -> 500
          [] parsed.data.kind # "object" -> 500
          [] InsertError(LogKwargs(parsed.data, user_agent)) # "" -> 500
          [] OTHER -> 200

\* str(e) of the exception the generic handler reports
LogGestureMessage(body, user_agent) ==
    LET parsed == json_loads(body)
    IN  CASE parsed.exc = "JSONDecodeError" -> "Invalid JSON"
          [] parsed.exc # "" -> parsed.exc
          [] parsed.data.kind # "object" -> "AttributeError"
          [] OTHER -> InsertError(LogKwargs(parsed.data, user_agent))

\* the key of the session lookup: data.get('session_id')
LookupKey(data) == DataGet(data, "session_id", Null)

\* POST /api/log-gesture/ handled without interruption
log_gesture(user, body, user_agent) ==
    LET status == LogGestureStatus(body, user_agent)
        input == [body |-> body, user_agent |-> user_agent]
        now == clock + 1
        id == Uuid(uuids + 1)
        data == json_loads(body).data
        log == NewLogRow(id, UserOrNone(user), LogKwargs(data, user_agent), now)
        found == SessionMatches(PresentationSession, LookupKey(data))
    IN  IF status # 200
        THEN /\ resp' = Response("log_gesture", user, input, status,
                                 ErrorPayload(LogGestureMessage(body, user_agent)))
             /\ UNCHANGED <<GestureLog, PresentationSession, clock, uuids, auth_user, procs>>
        ELSE /\ GestureLog' = Append(GestureLog, log)
             /\ clock' = now
             /\ uuids' = uuids + 1
             /\ UNCHANGED <<auth_user, procs>>
             /\ IF Cardinality(found) > 1
                THEN /\ resp' = Response("log_gesture", user, input, 500,
                                         ErrorPayload("MultipleObjectsReturned"))
                     /\ UNCHANGED PresentationSession
                ELSE /\ resp' = Response("log_gesture", user, input, 200,
                                         [status |-> "success", log_id |-> id])
                     /\ PresentationSession' =
                            IF found = {}
                            THEN PresentationSession
                            ELSE SessionSave(PresentationSession,
                                             Increment(CHOOSE s \in found : TRUE), now)

\* ------------------------------------------------------------------ presentation_view

\* GET /presentation/?session_id=... handled without interruption
presentation_view(user, arg) ==
    LET fresh == arg = Absent
        session_id == IF fresh THEN Uuid(uuids + 1) ELSE arg
        drawn == IF fresh THEN 1 ELSE 0
        got == GetOrCreate(PresentationSession, session_id, ViewSessionDefaults(user),
                           Uuid(uuids + drawn + 1), clock + 1)
    IN  /\ PresentationSession' = got.table
        /\ clock' = IF got.created THEN clock + 1 ELSE clock
        /\ uuids' = IF got.created THEN uuids + drawn + 1 ELSE uuids
        /\ resp' = Response("presentation_view", user, arg, 200,
                            [session_id |-> session_id,
                             is_authenticated |-> is_authenticated(user),
                             created |-> got.created])
        /\ UNCHANGED <<GestureLog, auth_user, procs>>

\* ------------------------------------------------------------------ gesture-log REST resource

SafeMethods == {"GET", "HEAD", "OPTIONS"}

\* the project default, IsAuthenticatedOrReadOnly, which the viewset overrides
IsAuthenticatedOrReadOnly(user, method) == method \in SafeMethods \/ is_authenticated(user)
\* permission_classes = [permissions.IsAuthenticated]
has_permission(user, method) == is_authenticated(user)

\* The status that ends a request before its handler runs, 0 when it runs:
\* permissions first, then the rate throttle.
Refusal(user, method, throttled) ==
    IF ~has_permission(user, method) THEN 403 ELSE IF throttled THEN 429 ELSE 0

RefusalPayload(status) ==
    IF status = 403 THEN [detail |-> "not_authenticated"] ELSE [detail |-> "throttled"]

GestureChoices ==
    {Str("thumbs_up"), Str("fist"), Str("open_palm"), Str("victory"), Str("ok"),
     Str("unknown")}

\* the field defaults of the GestureLog model
ModelDefault(column) ==
    CASE column \in {"confidence", "frame_count", "detection_time_ms",
                     "frame_processing_time_ms"} -> Num(0)
      [] column \in NullableColumns -> Null
      [] OTHER -> Str("")

\* fields = '__all__' without the read-only id and created_at
SerializerFields == ValueColumns \cup {"user"}
NoData == [f \in SerializerFields |-> Absent]

\* the fields without default, blank or null
RequiredFields == {"session_id", "gesture_type"}
BlankFields == {"browser", "user_agent", "screen_resolution"}

\* max_length of the CharFields; the TextField user_agent has none
max_length(column) ==
    CASE column \in {"session_id", "browser"} -> 100
      [] column \in {"gesture_type", "screen_resolution"} -> 50

\* The serializer field of a column accepts the value: null only where the
\* column is nullable; user is the key of an existing user, or the empty text,
\* which the relational field reads as null; gesture_type is a
\* choice; a text field takes a text or a number, not blank unless the column
\* is, no longer than max_length; a float field takes what float() reads; the
\* integer field takes an integer or its decimal text.
FieldValid(column, v) ==
    CASE v = Null -> column \in NullableColumns \cup {"user"}
      [] column = "user" -> v = Str("") \/ (v.t = "str" /\ v.s \in auth_user)
      [] column = "gesture_type" -> CharPrep(v) \in GestureChoices
      [] column \in CharColumns ->
            /\ CharPrep(v).t = "str"
            /\ CharPrep(v) = Str("") => column \in BlankFields
            /\ (v.s = "letters" /\ column # "user_agent") => v.n <= max_length(column)
      [] column \in FloatColumns -> FloatPrep(v).t = "num"
      [] column \in IntColumns ->
            (v.t = "num" /\ v.s = "") \/ (v.t = "str" /\ v.s = "digits")

\* GestureLogSerializer.is_valid: the required fields are present (unless
\* partial) and every field present is accepted
SerializerValid(data, partial) ==
    /\ partial \/ \A c \in RequiredFields : data[c] # Absent
    /\ \A c \in SerializerFields : data[c] # Absent => FieldValid(c, data[c])

\* the user a validated key stands for
UserOf(v) == IF v \in {Null, Absent, Str("")} THEN NoUser ELSE v.s

\* serializer.save() on a new row: the validated members, else the model defaults
SerializerCreate(id, data, now) ==
    NewLogRow(id, UserOf(data["user"]),
              [c \in ValueColumns |-> IF data[c] # Absent THEN data[c] ELSE ModelDefault(c)],
              now)

\* (a variant without read_only_fields, which resets created_at)
SerializerUpdateAll(row, data) ==
    [c \in DOMAIN row |->
        IF c = "created_at" THEN 0
        ELSE IF c \notin SerializerFields \/ data[c] = Absent THEN row[c]
        ELSE IF c = "user" THEN UserOf(data[c])
        ELSE get_prep_value(c, data[c])]
\* serializer.save() on an existing row: the validated members are assigned
SerializerUpdate(row, data) ==
    [c \in DOMAIN row |->
        IF c \notin SerializerFields \/ data[c] = Absent THEN row[c]
        ELSE IF c = "user" THEN UserOf(data[c])
        ELSE get_prep_value(c, data[c])]

Indexes(pk) == {i \in DOMAIN GestureLog : GestureLog[i].id = pk}

\* GestureLog.objects.all().order_by('-created_at'): the table is kept in the
\* order of created_at, so the newest row is the last one
queryset == [i \in 1..Len(GestureLog) |-> GestureLog[Len(GestureLog) + 1 - i]]

\* the row put at its place in a sequence ordered by created_at
Placed(row, seq) ==
    SelectSeq(seq, LAMBDA r : r.created_at <= row.created_at) \o <<row>>
        \o SelectSeq(seq, LAMBDA r : r.created_at > row.created_at)

Without(seq, pk) == SelectSeq(seq, LAMBDA r : r.id # pk)

\* a refused request: the response records who asked for what, not the input
Refused(op, user, status) ==
    /\ resp' = Response(op, user, Null, status, RefusalPayload(status))
    /\ UNCHANGED <<GestureLog, PresentationSession, clock, uuids, auth_user, procs>>

\* GET /api/gesture-logs/
list(user, throttled) ==
    LET refusal == Refusal(user, "GET", throttled)
    IN  IF refusal # 0 THEN Refused("list", user, refusal)
        ELSE /\ resp' = Response("list", user, Null, 200, queryset)
             /\ UNCHANGED <<GestureLog, PresentationSession, clock, uuids, auth_user, procs>>

\* GET /api/gesture-logs/<pk>/
retrieve(user, throttled, pk) ==
    LET refusal == Refusal(user, "GET", throttled)
    IN  IF refusal # 0 THEN Refused("retrieve", user, refusal)
        ELSE /\ resp' = IF Indexes(pk) = {}
                        THEN Response("retrieve", user, pk, 404, [detail |-> "not_found"])
                        ELSE Response("retrieve", user, pk, 200,
                                      GestureLog[CHOOSE i \in Indexes(pk) : TRUE])
             /\ UNCHANGED <<GestureLog, PresentationSession, clock, uuids, auth_user, procs>>

\* POST /api/gesture-logs/
create(user, throttled, data) ==
    LET refusal == Refusal(user, "POST", throttled)
        row == SerializerCreate(Uuid(uuids + 1), data, clock + 1)
    IN  IF refusal # 0 THEN Refused("create", user, refusal)
        ELSE IF ~SerializerValid(data, FALSE)
        THEN /\ resp' = Response("create", user, data, 400, [detail |-> "invalid"])
             /\ UNCHANGED <<GestureLog, PresentationSession, clock, uuids, auth_user, procs>>
        ELSE /\ GestureLog' = Append(GestureLog, row)
             /\ clock' = clock + 1
             /\ uuids' = uuids + 1
             /\ resp' = Response("create", user, data, 201, row)
             /\ UNCHANGED <<PresentationSession, auth_user, procs>>

\* PUT (partial = FALSE) or PATCH (partial = TRUE) /api/gesture-logs/<pk>/
update(user, throttled, pk, data, partial) ==
    LET op == IF partial THEN "partial_update" ELSE "update"
        refusal == Refusal(user, IF partial THEN "PATCH" ELSE "PUT", throttled)
        input == [pk |-> pk, data |-> data]
    IN  IF refusal # 0 THEN Refused(op, user, refusal)
        ELSE IF Indexes(pk) = {} \/ ~SerializerValid(data, partial)
        THEN /\ resp' = Response(op, user, input, IF Indexes(pk) = {} THEN 404 ELSE 400,
                                 [detail |-> "error"])
             /\ UNCHANGED <<GestureLog, PresentationSession, clock, uuids, auth_user, procs>>
        ELSE LET i == CHOOSE j \in Indexes(pk) : TRUE
                 row == SerializerUpdate(GestureLog[i], data)
             IN  /\ GestureLog' = [GestureLog EXCEPT ![i] = row]
                 /\ resp' = Response(op, user, input, 200, row)
                 /\ UNCHANGED <<PresentationSession, clock, uuids, auth_user, procs>>

\* DELETE /api/gesture-logs/<pk>/
destroy(user, throttled, pk) ==
    LET refusal == Refusal(user, "DELETE", throttled)
    IN  IF refusal # 0 THEN Refused("destroy", user, refusal)
        ELSE IF Indexes(pk) = {}
        THEN /\ resp' = Response("destroy", user, pk, 404, [detail |-> "not_found"])
             /\ UNCHANGED <<GestureLog, PresentationSession, clock, uuids, auth_user, procs>>
        ELSE /\ GestureLog' = Without(GestureLog, pk)
             /\ resp' = Response("destroy", user, pk, 204, Null)
             /\ UNCHANGED <<PresentationSession, clock, uuids, auth_user, procs>>

\* ------------------------------------------------------------------ session_stats

\* (a variant that aggregates over every session)
FilterAll(rows, session_id) == rows
\* self.queryset.filter(session_id=session_id)
Filter(rows, session_id) ==
    SelectSeq(rows, LAMBDA r : r.session_id = CharPrep(session_id))

\* the loop over the rows: gesture_types[t] = gesture_types.get(t, 0) + 1
\* the dictionary the loop builds over rows[lo..hi], gesture_types[t] =
\* gesture_types.get(t, 0) + 1 row after row: the counts of the two halves of
\* the range added up type by type
RECURSIVE CountRange(_, _, _)
CountRange(rows, lo, hi) ==
    IF lo > hi THEN <<>>
    ELSE IF lo = hi THEN [t \in {rows[lo].gesture_type} |-> 1]
    ELSE LET mid == (lo + hi) \div 2
             a == CountRange(rows, lo, mid)
             b == CountRange(rows, mid + 1, hi)
         IN  [t \in DOMAIN a \cup DOMAIN b |->
                (IF t \in DOMAIN a THEN a[t] ELSE 0) + (IF t \in DOMAIN b THEN b[t] ELSE 0)]
CountTypes(rows) == CountRange(rows, 1, Len(rows))

\* a number counted in halves, and back
Halves(v) == 2 * v.n + (IF v.s = ".5" THEN 1 ELSE 0)
FromHalves(h) == IF h % 2 = 0 THEN Num(h \div 2) ELSE NumHalf((h - 1) \div 2)

\* sum(log.<column> for log in logs)
\* sum(... for log in logs) over rows[lo..hi], in halves
RECURSIVE SumHalves(_, _, _, _)
SumHalves(rows, column, lo, hi) ==
    IF lo > hi THEN 0
    ELSE IF lo = hi THEN Halves(rows[lo][column])
    ELSE LET mid == (lo + hi) \div 2
         IN  SumHalves(rows, column, lo, mid) + SumHalves(rows, column, mid + 1, hi)
SumOf(rows, column) == FromHalves(SumHalves(rows, column, 1, Len(rows)))

\* a / b, kept as the exact fraction
Ratio(a, b) == [num |-> a, den |-> b]

\* the stats of a count query that returned total and an iteration over rows
Stats(total, rows) ==
    IF total > 0
    THEN [total_gestures |-> total,
          gesture_types |-> CountTypes(rows),
          avg_confidence |-> Ratio(SumOf(rows, "confidence"), total),
          avg_latency |-> Ratio(SumOf(rows, "detection_time_ms"), total)]
    ELSE [total_gestures |-> total, gesture_types |-> <<>>,
          avg_confidence |-> Ratio(Num(0), 1), avg_latency |-> Ratio(Num(0), 1)]

\* GET /api/gesture-logs/session_stats/?session_id=...
session_stats(user, throttled, session_id) ==
    LET refusal == Refusal(user, "GET", throttled)
        logs == Filter(queryset, session_id)
    IN  /\ resp' =
            IF refusal # 0
            THEN Response("session_stats", user, Null, refusal, RefusalPayload(refusal))
            ELSE IF session_id \in {Absent, Str("")}
            THEN Response("session_stats", user, session_id, 400,
                          [error |-> "session_id required"])
            ELSE Response("session_stats", user, session_id, 200, Stats(Len(logs), logs))
        /\ UNCHANGED <<GestureLog, PresentationSession, clock, uuids, auth_user, procs>>

\* ------------------------------------------------------------------ setup_demo

\* range(50): the sample rows of one run
DemoRows == 50
\* session.gesture_count = 50
DemoCount == 50
DemoSession == Str("demo-session-001")
DemoDefaults ==
    [user |-> "demo", total_slides |-> 5, is_presenting |-> TRUE,
     avg_latency_ms |-> 855, gesture_count |-> 0]

\* the random draws of one sample row
DemoDraws ==
    {[gesture_type |-> Str("thumbs_up"), confidence |-> Num(70), frame_count |-> Num(5),
      detection_time_ms |-> Num(50), frame_processing_time_ms |-> Num(10),
      browser |-> Str("Chrome"), screen_resolution |-> Str("1920x1080")],
     [gesture_type |-> Str("ok"), confidence |-> Num(98), frame_count |-> Num(10),
      detection_time_ms |-> Num(120), frame_processing_time_ms |-> Num(30),
      browser |-> Str("Safari"), screen_resolution |-> Str("1366x768")]}

\* the draws of the rows of one run: the two draws in turn, starting with
\* either
DemoRun(k) ==
    [i \in 1..DemoRows |->
        CHOOSE d \in DemoDraws : (d.gesture_type = Str("ok")) <=> (i % 2 = k)]

DemoKwargs(session, draw) ==
    [c \in ValueColumns |->
        CASE c = "session_id" -> session.session_id
          [] c \in DOMAIN draw -> draw[c]
          [] OTHER -> ModelDefault(c)]

\* the number of runs of the seeder so far: a run draws the ids of its rows,
\* the requests explored beside it draw fewer in all
SeederRuns == uuids \div DemoRows

\* manage.py setup_demo run without interruption: the demo user, the demo
\* session, the 50 sample rows (created_at is auto_now_add, so the value the
\* command passes is replaced by the time of the insert), then
\* gesture_count = 50 saved on the session
setup_demo(draws) ==
    LET got == GetOrCreate(PresentationSession, DemoSession, DemoDefaults,
                           Uuid(uuids + 1), clock + 1)
        base == IF got.created THEN 1 ELSE 0
        rows == [i \in 1..DemoRows |->
                    NewLogRow(Uuid(uuids + base + i), "demo", DemoKwargs(got.obj, draws[i]),
                              clock + base + i)]
    IN  /\ auth_user' = auth_user \cup {"demo"}
        /\ GestureLog' = GestureLog \o rows
        /\ clock' = clock + base + DemoRows + 1
        /\ uuids' = uuids + base + DemoRows
        /\ PresentationSession' =
                SessionSave(got.table, [got.obj EXCEPT !.gesture_count = DemoCount], clock')
        /\ resp' = Response("setup_demo", "demo", Null, 0, Null)
        /\ UNCHANGED procs

\* ------------------------------------------------------------------ inputs

\* an object body with the given members
Obj1(f, v) == ObjBody([EmptyObj EXCEPT ![f] = v])
Gesture(session_id, gesture_type, confidence, detection_time_ms) ==
    ObjBody([EmptyObj EXCEPT !["session_id"] = session_id,
                             !["gesture_type"] = gesture_type,
                             !["confidence"] = confidence,
                             !["detection_time_ms"] = detection_time_ms])

\* ------------------------------------------------------------------ Spec
\* Sequential requests to log_gesture and presentation_view.

Bodies ==
    {Body("bad_syntax", EmptyObj), ObjBody(EmptyObj),
     Gesture(Str("s1"), Str("fist"), Num(80), Num(100)),
     Gesture(Str("s2"), Str("ok"), Num(90), Num(60))}

LogGesture ==
    /\ Len(GestureLog) < MaxLogs
    /\ \E body \in Bodies : log_gesture(AnonymousUser, body, Str(""))

PresentationView ==
    \E user \in {"alice", AnonymousUser}, arg \in {Str("s1"), Absent} :
        /\ SessionMatches(PresentationSession, arg) = {}
              => Cardinality(PresentationSession) < MaxSessions
        /\ presentation_view(user, arg)

Next ==
    \/ LogGesture
    \/ PresentationView

Spec == Init /\ [][Next]_vars

\* ------------------------------------------------------------------ claims under Spec

\* the session_id a body carries, as a text: a body without one carries none
Supplied(body) == body.kind = "object" /\ body.obj["session_id"].t = "str"

SessionsWith(session_id) == {s \in PresentationSession : s.session_id = session_id}
LogsOf(session_id) == {i \in DOMAIN GestureLog : GestureLog[i].session_id = session_id}

\* the log_gesture request of a step
IsLogGesture(body) == log_gesture(AnonymousUser, body, Str(""))

\* C2: a log_gesture request whose session_id is that of an existing session
\* leaves the session's gesture_count one greater and its last_activity later,
\* and every other column and every other session as they were; so the count
\* of a session is the number of gestures logged for it since it started.
C2_Step ==
    \A body \in Bodies : \A s \in PresentationSession :
        (Supplied(body) /\ s.session_id = body.obj["session_id"] /\ IsLogGesture(body))
            => /\ resp'.status = 200
               /\ \E t \in PresentationSession' :
                    /\ t.gesture_count = s.gesture_count + 1
                    /\ t.last_activity > s.last_activity
                    /\ t = [s EXCEPT !.gesture_count = t.gesture_count,
                                     !.last_activity = t.last_activity]
                    /\ PresentationSession' = (PresentationSession \ {s}) \cup {t}
C2_Count ==
    \A s \in PresentationSession :
        s.gesture_count =
            Cardinality({i \in LogsOf(s.session_id) : GestureLog[i].created_at > s.started_at})
\* C2: every matching log_gesture step adds exactly one to the session's
\* gesture_count and moves last_activity forward, and the count always equals
\* the number of gestures logged for the session since it started.
C2_CountGrowsByOne == [][C2_Step]_vars /\ []C2_Count

\* two gestures were logged, one after the other, for a session that existed
C2_Witness ==
    /\ resp.op = "log_gesture"
    /\ resp.status = 200
    /\ \E s \in PresentationSession :
        /\ s.gesture_count = 2
        /\ s.session_id = resp.input.body.obj["session_id"]
        /\ s.last_activity = clock

\* C3: a log_gesture request whose session_id is that of no session leaves the
\* session table as it was, inserts the GestureLog row and answers success.
C3_Step ==
    \A body \in Bodies :
        (/\ body.kind = "object"
         /\ SessionsWith(DataGet(body, "session_id", Str("anonymous"))) = {}
         /\ IsLogGesture(body))
            => /\ PresentationSession' = PresentationSession
               /\ Len(GestureLog') = Len(GestureLog) + 1
               /\ SubSeq(GestureLog', 1, Len(GestureLog)) = GestureLog
               /\ resp'.status = 200
               /\ resp'.payload.status = "success"
\* C3: every log_gesture step whose session_id matches no session leaves the
\* sessions untouched, appends the row and answers success.
C3_NoMatchLeavesSessions == [][C3_Step]_vars

\* a gesture was logged for s2 while only other sessions existed
C3_Witness ==
    /\ resp.op = "log_gesture"
    /\ resp.status = 200
    /\ resp.input.body.obj["session_id"] = Str("s2")
    /\ PresentationSession # {}
    /\ \A s \in PresentationSession : s.gesture_count = 0 /\ s.last_activity = s.started_at
    /\ GestureLog[Len(GestureLog)].id = resp.payload.log_id

\* the session a presentation_view response is about
SessionOfResponse == SessionsWith(CharPrep(resp.payload.session_id))

\* C10 as stated: after a presentation_view request by an authenticated user the
\* row of its session_id carries that user, created or fetched.
C10_Original ==
    (resp.op = "presentation_view" /\ is_authenticated(resp.user))
        => \A s \in SessionOfResponse : s.user = resp.user

\* C10 amended: presentation_view sets the user only on the row it creates (the
\* requester, None when unauthenticated); a request that fetches an existing
\* row leaves it, its user included, as it was.
C10_Created ==
    (resp.op = "presentation_view" /\ resp.payload.created)
        => /\ Cardinality(SessionOfResponse) = 1
           /\ \A s \in SessionOfResponse : s.user = UserOrNone(resp.user)
C10_Fetched ==
    \A user \in Requesters, arg \in {Str("s1"), Absent} :
        (presentation_view(user, arg) /\ SessionMatches(PresentationSession, arg) # {})
            => PresentationSession' = PresentationSession
\* C10 amended: the created row carries the requester (None when anonymous),
\* and a fetch leaves the session table as it was.
C10_UserSetOnCreateOnly == []C10_Created /\ [][C10_Fetched]_vars

\* alice fetched a session an anonymous request had created
C10_Witness ==
    /\ resp.op = "presentation_view"
    /\ resp.user = "alice"
    /\ ~resp.payload.created
    /\ \E s \in SessionOfResponse : s.user = NoUser

\* ------------------------------------------------------------------ SpecIngest
\* log_gesture on bodies of every shape.

FullObj ==
    [EmptyObj EXCEPT !["session_id"] = Str("s1"), !["gesture_type"] = Str("victory"),
                     !["confidence"] = Num(85), !["frame_count"] = Num(7),
                     !["hand_x"] = Num(1), !["hand_y"] = NumHalf(0), !["hand_z"] = Num(0),
                     !["detection_time_ms"] = Num(100),
                     !["frame_processing_time_ms"] = NumHalf(12),
                     !["browser"] = Str("Chrome"),
                     !["screen_resolution"] = Str("1920x1080")]
HalfObj ==
    [EmptyObj EXCEPT !["session_id"] = Str("s1"), !["confidence"] = Num(85),
                     !["hand_x"] = Null, !["hand_z"] = Num(3),
                     !["browser"] = Str("Firefox"), !["gesture_type"] = Str("wave")]

IngestBodies ==
    {Body("bad_utf8", EmptyObj), Body("bad_syntax", EmptyObj), Body("array", EmptyObj),
     Body("scalar", EmptyObj), ObjBody(EmptyObj), ObjBody(FullObj), ObjBody(HalfObj),
     Obj1("session_id", Null), Obj1("session_id", Num(5)),
     Obj1("confidence", Str("high")), Obj1("confidence", NumStr(7)),
     Obj1("frame_count", NumHalf(2)), Obj1("frame_count", NumHalf(-3)),
     Obj1("frame_count", Str("many")),
     Obj1("browser", Null), Obj1("detection_time_ms", Null)}

IngestUsers == {"alice", AnonymousUser}
IngestAgents == {Str(""), Str("Mozilla/5.0")}

LogGestureIngest ==
    /\ Len(GestureLog) < MaxIngest
    /\ \E user \in IngestUsers, body \in IngestBodies, user_agent \in IngestAgents :
            log_gesture(user, body, user_agent)

PresentationViewIngest == presentation_view(AnonymousUser, Str("s1"))

NextIngest ==
    \/ LogGestureIngest
    \/ PresentationViewIngest

SpecIngest == Init /\ [][NextIngest]_vars

\* the defaults section 4.1 documents
DocumentedDefault(field) ==
    CASE field = "session_id" -> Str("anonymous")
      [] field = "gesture_type" -> Str("unknown")
      [] field = "confidence" -> Num(0)
      [] field = "frame_count" -> Num(1)
      [] field \in {"hand_x", "hand_y", "hand_z"} -> Null
      [] field \in {"detection_time_ms", "frame_processing_time_ms"} -> Num(0)
      [] field \in {"browser", "screen_resolution"} -> Str("")

Expected(body, field) ==
    IF body.obj[field] = Absent THEN DocumentedDefault(field) ELSE body.obj[field]

LastLog == GestureLog[Len(GestureLog)]

ValidJson(body) == body.kind \in {"array", "scalar", "object"}

\* every supplied member has the JSON type of its column
WellTyped(body) ==
    /\ body.kind = "object"
    /\ \A f \in BodyFields :
        LET v == body.obj[f]
        IN  \/ v = Absent
            \/ f \in CharColumns /\ v.t = "str"
            \/ f \in FloatColumns /\ v.t = "num"
            \/ f \in IntColumns /\ v.t = "num" /\ v.s = ""
            \/ f \in NullableColumns /\ v = Null

\* C1 as stated: after a log_gesture request with any valid JSON body the
\* response is success and the newest row carries the supplied or default values.
C1_Original ==
    (resp.op = "log_gesture" /\ ValidJson(resp.input.body))
        => /\ resp.status = 200
           /\ GestureLog # <<>>
           /\ \A f \in BodyFields : LastLog[f] = Expected(resp.input.body, f)

\* C1 amended: a log_gesture request whose body is a JSON object in which every
\* supplied member has the type of its field creates exactly one row, whose
\* fields are the supplied values or the documented defaults, whose user is the
\* authenticated requester or None, and the rows before it stay as they were.
C1_Step ==
    (resp'.op = "log_gesture" /\ WellTyped(resp'.input.body))
        => /\ resp'.status = 200
           /\ Len(GestureLog') = Len(GestureLog) + 1
           /\ SubSeq(GestureLog', 1, Len(GestureLog)) = GestureLog
           /\ LET row == GestureLog'[Len(GestureLog')]
              IN  /\ \A f \in BodyFields : row[f] = Expected(resp'.input.body, f)
                  /\ row.user = (IF resp'.user \in Users THEN resp'.user ELSE NoUser)
                  /\ row.user_agent = resp'.input.user_agent
                  /\ row.id = resp'.payload.log_id
\* C1 amended: every log_gesture step on a well-typed object body appends one
\* row holding the supplied values or the documented defaults.
C1_RowMatchesBody == [][C1_Step]_vars

\* alice posted a body with some members: the row has them and the defaults
C1_Witness ==
    /\ resp.op = "log_gesture"
    /\ resp.status = 200
    /\ resp.user = "alice"
    /\ resp.input.body = ObjBody(HalfObj)
    /\ LastLog.user = "alice"
    /\ LastLog.frame_count = Num(1)
    /\ LastLog.gesture_type = Str("wave")

\* C4: a log_gesture request whose body is no JSON answers 400 "Invalid JSON".
C4_InvalidJson400 ==
    (resp.op = "log_gesture" /\ ~ValidJson(resp.input.body))
        => /\ resp.status = 400
           /\ resp.payload = ErrorPayload("Invalid JSON")

\* ------------------------------------------------------------------ SpecRest
\* The REST resource beside log_gesture and presentation_view, one request
\* after the other.

RestUsers == {"alice", AnonymousUser}
\* who asks, and whether the rate throttle turns the request away
RestCallers == {<<"alice", FALSE>>, <<"alice", TRUE>>, <<AnonymousUser, FALSE>>}
\* the callers of the requests that carry data
RestWriters == {c \in RestCallers : ~c[2]}
\* the primary keys the requests name: the first MaxRest ids drawn
KnownIds == {Uuid(k) : k \in 1..(IF uuids < MaxRest THEN uuids ELSE MaxRest)}

RestData ==
    {[NoData EXCEPT !["session_id"] = Str("s1"), !["gesture_type"] = Str("ok"),
                    !["confidence"] = Num(90), !["user"] = Str("alice")],
     [NoData EXCEPT !["session_id"] = Str("s1"), !["gesture_type"] = Str("wave")],
     [NoData EXCEPT !["session_id"] = Str("s1"), !["gesture_type"] = Str("ok"),
                    !["confidence"] = Str("high")],
     [NoData EXCEPT !["session_id"] = Long(101), !["gesture_type"] = Str("ok"),
                    !["user"] = Str("zed")]}
PatchData ==
    {[NoData EXCEPT !["user"] = Str("")],
     [NoData EXCEPT !["frame_count"] = NumHalf(2)],
     [NoData EXCEPT !["browser"] = Null]}

LogGestureRest ==
    /\ uuids < MaxRest
    /\ log_gesture(AnonymousUser, Gesture(Str("s1"), Str("fist"), Num(80), Num(100)), Str(""))

\* the page is opened before the gestures are logged
PresentationViewRest ==
    /\ uuids = 0
    /\ presentation_view(AnonymousUser, Str("s1"))

RestList == \E c \in RestCallers : list(c[1], c[2])

RestRetrieve ==
    \E c \in RestCallers, pk \in KnownIds : retrieve(c[1], c[2], pk)

RestCreate ==
    /\ uuids < MaxRest
    /\ \E c \in RestWriters, data \in RestData :
            create(c[1], c[2], data)

RestUpdate ==
    \E c \in RestWriters, pk \in KnownIds, data \in RestData :
        update(c[1], c[2], pk, data, FALSE)

RestPartialUpdate ==
    \E c \in RestWriters, pk \in KnownIds, data \in PatchData :
        update(c[1], c[2], pk, data, TRUE)

RestDestroy ==
    \E c \in RestCallers, pk \in KnownIds : destroy(c[1], c[2], pk)

RestSessionStats ==
    \E c \in RestCallers : session_stats(c[1], c[2], Str("s1"))

NextRest ==
    \/ LogGestureRest
    \/ PresentationViewRest
    \/ RestList
    \/ RestRetrieve
    \/ RestCreate
    \/ RestUpdate
    \/ RestPartialUpdate
    \/ RestDestroy
    \/ RestSessionStats

SpecRest == Init /\ [][NextRest]_vars

RestOps ==
    {"list", "retrieve", "create", "update", "partial_update", "destroy", "session_stats"}

\* C7: every operation of the gesture-log REST resource is refused for an
\* unauthenticated requester, with no row in the response and no change to the
\* table; log_gesture serves an unauthenticated POST and stores the row with
\* user None.
C7_Refused ==
    (resp.op \in RestOps /\ resp.user = AnonymousUser)
        => resp.status = 403 /\ resp.payload = [detail |-> "not_authenticated"]
C7_Ingest ==
    (resp.op = "log_gesture" /\ resp.user = AnonymousUser /\ ValidJson(resp.input.body)
        /\ WellTyped(resp.input.body))
        => /\ resp.status = 200
           /\ LastLog.id = resp.payload.log_id
           /\ LastLog.user = NoUser
C7_NoEffect ==
    (resp'.op \in RestOps /\ resp'.user = AnonymousUser) => GestureLog' = GestureLog
\* C7: anonymous REST requests are always answered 403 and never change the
\* table, while anonymous log_gesture posts are stored with user None.
C7_RestNeedsAuthentication == []C7_Refused /\ []C7_Ingest /\ [][C7_NoEffect]_vars

\* an anonymous DELETE of an existing row, logged anonymously, was refused
C7_Witness ==
    /\ resp.op = "destroy"
    /\ resp.user = AnonymousUser
    /\ resp.status = 403
    /\ \E i \in DOMAIN GestureLog : GestureLog[i].user = NoUser

\* ------------------------------------------------------------------ SpecRows
\* Every operation of the application, the seeder included; the REST update
\* and delete run one statement per step in two workers: get_object()'s SELECT,
\* then save()'s UPDATE and, when that matched no row, its INSERT; or the SELECT
\* and then the DELETE.

\* what an update holds between get_object() and save(): the row as read and
\* the validated data
Edit(row, data) == [row |-> row, data |-> data]

\* update up to get_object() and is_valid(): the refusals, 404 and 400 end the
\* request here
UpGet(p, user, throttled, pk, data, partial) ==
    LET op == IF partial THEN "partial_update" ELSE "update"
        refusal == Refusal(user, IF partial THEN "PATCH" ELSE "PUT", throttled)
        input == [pk |-> pk, data |-> data]
    IN  /\ procs[p].pc = "idle"
        /\ IF refusal # 0
           THEN /\ resp' = Response(op, user, Null, refusal, RefusalPayload(refusal))
                /\ UNCHANGED procs
           ELSE IF Indexes(pk) = {} \/ ~SerializerValid(data, partial)
           THEN /\ resp' = Response(op, user, input, IF Indexes(pk) = {} THEN 404 ELSE 400,
                                    [detail |-> "error"])
                /\ UNCHANGED procs
           ELSE /\ procs' = [procs EXCEPT ![p] =
                        Proc("up_save", op, user, pk,
                             Edit(GestureLog[CHOOSE i \in Indexes(pk) : TRUE], data), 0, "",
                             Null)]
                /\ UNCHANGED resp
        /\ UNCHANGED <<GestureLog, PresentationSession, clock, uuids, auth_user>>

\* instance.save(), its UPDATE: every column of the row with this primary key
\* is written from the object in memory and the request answers 200; when no
\* row has the key any more the save goes on to its INSERT, another statement
UpUpdate(p) ==
    LET row == SerializerUpdate(procs[p].obj.row, procs[p].obj.data)
        input == [pk |-> procs[p].key, data |-> procs[p].obj.data]
    IN  /\ procs[p].pc = "up_save"
        /\ IF Indexes(procs[p].key) # {}
           THEN /\ GestureLog' =
                        LET i == CHOOSE k \in Indexes(procs[p].key) : TRUE
                        IN  IF GestureLog[i].created_at = row.created_at
                            THEN [GestureLog EXCEPT ![i] = row]
                            ELSE Placed(row, Without(GestureLog, row.id))
                /\ resp' = Response(procs[p].op, procs[p].user, input, 200, row)
                /\ procs' = [procs EXCEPT ![p] = Idle]
           ELSE /\ procs' = [procs EXCEPT ![p].pc = "up_insert"]
                /\ UNCHANGED <<GestureLog, resp>>
        /\ UNCHANGED <<PresentationSession, clock, uuids, auth_user>>

\* instance.save(), its INSERT: the object is inserted and auto_now_add sets
\* its created_at; when a row has the primary key again the INSERT raises
\* IntegrityError, which no handler catches, and the request answers 500
UpInsert(p) ==
    LET row == SerializerUpdate(procs[p].obj.row, procs[p].obj.data)
        input == [pk |-> procs[p].key, data |-> procs[p].obj.data]
        stored == [row EXCEPT !.created_at = clock + 1]
    IN  /\ procs[p].pc = "up_insert"
        /\ IF Indexes(procs[p].key) = {}
           THEN /\ GestureLog' = Append(GestureLog, stored)
                /\ clock' = clock + 1
                /\ resp' = Response(procs[p].op, procs[p].user, input, 200, stored)
           ELSE /\ resp' = Response(procs[p].op, procs[p].user, input, 500,
                                    [detail |-> "server_error"])
                /\ UNCHANGED <<GestureLog, clock>>
        /\ procs' = [procs EXCEPT ![p] = Idle]
        /\ UNCHANGED <<PresentationSession, uuids, auth_user>>

\* destroy up to get_object()
DsGet(p, user, throttled, pk) ==
    LET refusal == Refusal(user, "DELETE", throttled)
    IN  /\ procs[p].pc = "idle"
        /\ IF refusal # 0
           THEN /\ resp' = Response("destroy", user, Null, refusal, RefusalPayload(refusal))
                /\ UNCHANGED procs
           ELSE IF Indexes(pk) = {}
           THEN /\ resp' = Response("destroy", user, pk, 404, [detail |-> "not_found"])
                /\ UNCHANGED procs
           ELSE /\ procs' = [procs EXCEPT ![p] =
                        Proc("ds_delete", "destroy", user, pk, Null, 0, "", Null)]
                /\ UNCHANGED resp
        /\ UNCHANGED <<GestureLog, PresentationSession, clock, uuids, auth_user>>

\* instance.delete(): the DELETE succeeds whether or not the row is still there
DsDelete(p) ==
    /\ procs[p].pc = "ds_delete"
    /\ GestureLog' = Without(GestureLog, procs[p].key)
    /\ resp' = Response("destroy", procs[p].user, procs[p].key, 204, Null)
    /\ procs' = [procs EXCEPT ![p] = Idle]
    /\ UNCHANGED <<PresentationSession, clock, uuids, auth_user>>

RowCallers == {"alice", AnonymousUser}
\* the primary keys the requests name: the first MaxRows ids drawn
RowIds == {Uuid(k) : k \in 1..(IF uuids < MaxRows THEN uuids ELSE MaxRows)}
\* the data of the POSTs and PUTs, the user left empty
PutData ==
    [NoData EXCEPT !["session_id"] = Str("s1"), !["gesture_type"] = Str("ok"),
                   !["confidence"] = Num(90), !["user"] = Str("")]
\* the primary key the edits in two statements name: the first id drawn (edits
\* of different rows write different rows, whichever comes first)
EditIds == {Uuid(k) : k \in 1..(IF uuids < 1 THEN uuids ELSE 1)}
PatchOne == [NoData EXCEPT !["frame_count"] = Num(9)]

\* no REST request is between two of its statements
Quiet == \A p \in Procs : procs[p] = Idle

\* the number of rows inserted again so far: the clock ticks without an id
\* drawn in the save that ends a seeder run and in the insert of a row deleted
\* under an update
Reinserted == clock - uuids - SeederRuns

\* The reads, presentation_view and the seeder touch no row of an edit under
\* way and are explored between the edits, and so are the requests answered
\* 403 or 404. The seeder runs on the tables the requests built and edited,
\* before any row is inserted again; once its DemoRows rows are in the table
\* the requests read them and edit the rows among them in one step.
LogGestureRows ==
    /\ Len(GestureLog) < MaxRows
    /\ log_gesture(AnonymousUser, Gesture(Str("s1"), Str("fist"), Num(80), Num(100)), Str(""))

PresentationViewRows ==
    /\ Quiet
    /\ Len(GestureLog) < MaxRows
    /\ presentation_view(AnonymousUser, Str("s1"))

RowsList == Quiet /\ list("alice", FALSE)

RowsRetrieve == Quiet /\ \E pk \in RowIds : retrieve("alice", FALSE, pk)

RowsCreate ==
    /\ Len(GestureLog) < MaxRows
    /\ create("alice", FALSE, PutData)

RowsSessionStats == Quiet /\ session_stats("alice", FALSE, DemoSession)

RowsUpdate ==
    /\ Quiet
    /\ \E user \in RowCallers, pk \in RowIds : update(user, FALSE, pk, PutData, FALSE)

RowsPartialUpdate ==
    /\ Quiet
    /\ \E user \in RowCallers, pk \in RowIds : update(user, FALSE, pk, PatchOne, TRUE)

\* a third caller's DELETE may fall between the statements of the edits
RowsDestroy ==
    \E user \in RowCallers, pk \in RowIds :
        /\ (is_authenticated(user) /\ Indexes(pk) # {}) \/ Quiet
        /\ destroy(user, FALSE, pk)

\* the worker p1 serves the PUTs and DELETEs in two statements, p2 the PATCHes
RowsUpGet ==
    /\ SeederRuns = 0
    /\ \E pk \in EditIds : Indexes(pk) # {} /\ UpGet("p1", "alice", FALSE, pk, PutData, FALSE)

RowsPatchGet ==
    /\ SeederRuns = 0
    /\ \E pk \in EditIds : Indexes(pk) # {} /\ UpGet("p2", "alice", FALSE, pk, PatchOne, TRUE)

RowsUpInsert ==
    \E p \in Procs :
        /\ Indexes(procs[p].key) = {} => Reinserted < MaxReinserts
        /\ UpInsert(p)

RowsDsGet ==
    /\ SeederRuns = 0
    /\ \E pk \in EditIds : Indexes(pk) # {} /\ DsGet("p1", "alice", FALSE, pk)

SetupDemo ==
    /\ Quiet
    /\ Reinserted = 0
    /\ SeederRuns < MaxDemoRuns
    /\ setup_demo(DemoRun(1))

NextRows ==
    \/ LogGestureRows
    \/ PresentationViewRows
    \/ RowsList
    \/ RowsRetrieve
    \/ RowsCreate
    \/ RowsSessionStats
    \/ RowsUpdate
    \/ RowsPartialUpdate
    \/ RowsDestroy
    \/ RowsUpGet
    \/ RowsPatchGet
    \/ \E p \in Procs : UpUpdate(p)
    \/ RowsUpInsert
    \/ RowsDsGet
    \/ \E p \in Procs : DsDelete(p)
    \/ SetupDemo

SpecRows == Init /\ [][NextRows]_vars

\* the row is in the table after the step, at its place or at another
PersistsAt(i) ==
    \/ i \in DOMAIN GestureLog' /\ GestureLog'[i] = GestureLog[i]
    \/ \E j \in DOMAIN GestureLog' : GestureLog'[j] = GestureLog[i]

\* C8 as stated: no step changes or removes a GestureLog row that exists.
C8_Original == [][\A i \in DOMAIN GestureLog : PersistsAt(i)]_vars

\* C8 amended: a GestureLog row that exists is changed or removed only by a
\* served (authenticated) REST update, partial update or delete of that row; an
\* update keeps the row's id and writes the created_at its request read (the
\* row's own, unless the row was deleted and inserted again in between); every
\* other operation, every refused request and every update answered 404, 400
\* or 500 leaves every existing row as it was.
C8_Step ==
    \A i \in DOMAIN GestureLog :
        LET row == GestureLog[i]
        IN  \/ PersistsAt(i)
            \/ /\ resp'.op = "destroy"
               /\ resp'.status = 204
               /\ is_authenticated(resp'.user)
               /\ resp'.input = row.id
            \/ /\ resp'.op \in {"update", "partial_update"}
               /\ resp'.status = 200
               /\ is_authenticated(resp'.user)
               /\ resp'.input.pk = row.id
               /\ \E j \in DOMAIN GestureLog' :
                    /\ GestureLog'[j].id = row.id
                    /\ \/ procs' = procs /\ GestureLog'[j].created_at = row.created_at
                       \/ \E p \in Procs :
                            /\ procs[p].pc = "up_save"
                            /\ procs'[p] = Idle
                            /\ procs[p].key = row.id
                            /\ GestureLog'[j].created_at = procs[p].obj.row.created_at
\* C8 amended: in every step each existing row persists unless the step is a
\* served REST update, partial update or delete of that row, and an update
\* keeps the id and writes the created_at it read.
C8_OnlyRestWritesChangeRows == [][C8_Step]_vars

\* two PUTs had read a row that log_gesture stored; the row was deleted, the
\* first PUT inserted it again with a new created_at, and the second PUT wrote
\* back the created_at it had read
C8_Witness ==
    /\ resp.op = "update"
    /\ resp.status = 200
    /\ uuids = 1
    /\ clock = 2
    /\ Len(GestureLog) = 1
    /\ GestureLog[1].id = resp.input.pk
    /\ GestureLog[1].created_at = 1
    /\ GestureLog[1].gesture_type = Str("ok")
    /\ GestureLog[1].detection_time_ms = Num(100)
    /\ \A p \in Procs : procs[p] = Idle

\* ------------------------------------------------------------------ SpecStats
\* session_stats over the tables log_gesture builds.

StatsBodies ==
    {ObjBody(EmptyObj),
     Gesture(Str("s1"), Str("fist"), Num(80), Num(100)),
     Gesture(Str("s1"), Str("ok"), Num(90), NumHalf(12)),
     Gesture(Str("s2"), Str("fist"), NumHalf(70), Num(50))}

LogGestureStats ==
    /\ Len(GestureLog) < MaxStatLogs
    /\ \E body \in StatsBodies : log_gesture(AnonymousUser, body, Str(""))

SessionStats ==
    \E c \in RestCallers,
       session_id \in {Absent, Str(""), Str("s1"), Str("s2"), Str("s3")} :
        session_stats(c[1], c[2], session_id)

NextStats ==
    \/ LogGestureStats
    \/ SessionStats

SpecStats == Init /\ [][NextStats]_vars

\* the sum of a column over the rows at these indexes: the whole parts, and
\* one half for every value that has one
RECURSIVE WholeOver(_, _)
WholeOver(indexes, column) ==
    IF indexes = {} THEN 0
    ELSE LET i == CHOOSE j \in indexes : TRUE
         IN  GestureLog[i][column].n + WholeOver(indexes \ {i}, column)
SumOver(indexes, column) ==
    LET halves == Cardinality({i \in indexes : GestureLog[i][column].s = ".5"})
        whole == WholeOver(indexes, column) + (halves \div 2)
    IN  IF halves % 2 = 0 THEN Num(whole) ELSE NumHalf(whole)

TypesOf(indexes) == {GestureLog[i].gesture_type : i \in indexes}

\* C6: a served session_stats(s) with s not empty reports the number of rows
\* of session s, for each gesture_type among them its number of occurrences,
\* and the sums of confidence and detection_time_ms over them divided by their
\* number; zeros and an empty mapping when there is no such row; and 400
\* "session_id required" when session_id is missing.
C6_StatsMatchRows ==
    (resp.op = "session_stats" /\ resp.status \notin {403, 429})
        => LET of == LogsOf(resp.input)
               n == Cardinality(of)
               p == resp.payload
           IN  IF resp.input \in {Absent, Str("")}
               THEN resp.status = 400 /\ p = [error |-> "session_id required"]
               ELSE /\ resp.status = 200
                    /\ p.total_gestures = n
                    /\ DOMAIN p.gesture_types = TypesOf(of)
                    /\ \A t \in TypesOf(of) :
                         p.gesture_types[t] =
                            Cardinality({i \in of : GestureLog[i].gesture_type = t})
                    /\ n > 0 => /\ p.avg_confidence = Ratio(SumOver(of, "confidence"), n)
                                /\ p.avg_latency = Ratio(SumOver(of, "detection_time_ms"), n)
                    /\ n = 0 => /\ p.avg_confidence = Ratio(Num(0), 1)
                                /\ p.avg_latency = Ratio(Num(0), 1)

\* the stats of s1 over two of its rows of different types, beside a row of s2
C6_Witness ==
    /\ resp.op = "session_stats"
    /\ resp.status = 200
    /\ resp.input = Str("s1")
    /\ resp.payload.total_gestures = 2
    /\ Cardinality(DOMAIN resp.payload.gesture_types) = 2
    /\ resp.payload.avg_confidence = Ratio(Num(170), 2)
    /\ resp.payload.avg_latency = Ratio(NumHalf(112), 2)
    /\ LogsOf(Str("s2")) # {}

\* ------------------------------------------------------------------ SpecConc
\* Concurrent requests: every statement that reaches the database is a step.

\* log_gesture up to objects.create: the row is inserted
LgCreate(p, user, body) ==
    LET status == LogGestureStatus(body, Str(""))
        data == json_loads(body).data
        id == Uuid(uuids + 1)
        log == NewLogRow(id, UserOrNone(user), LogKwargs(data, Str("")), clock + 1)
    IN  /\ procs[p].pc = "idle"
        /\ IF status # 200
           THEN /\ procs' = [procs EXCEPT ![p] =
                        Proc("done", "log_gesture", user, Null, Null, status,
                             LogGestureMessage(body, Str("")), Null)]
                /\ UNCHANGED <<GestureLog, clock, uuids>>
           ELSE /\ GestureLog' = Append(GestureLog, log)
                /\ clock' = clock + 1
                /\ uuids' = uuids + 1
                /\ procs' = [procs EXCEPT ![p] =
                        Proc("lg_get", "log_gesture", user, LookupKey(data), Null, 0, "", id)]
        /\ UNCHANGED <<PresentationSession, auth_user, resp>>

\* PresentationSession.objects.get(...), then the increment on the object
LgGet(p) ==
    LET found == SessionMatches(PresentationSession, procs[p].key)
    IN  /\ procs[p].pc = "lg_get"
        /\ procs' =
            IF found = {}
            THEN [procs EXCEPT ![p].pc = "done", ![p].status = 200, ![p].outcome = "success"]
            ELSE IF Cardinality(found) > 1
            THEN [procs EXCEPT ![p].pc = "done", ![p].status = 500,
                               ![p].outcome = "MultipleObjectsReturned"]
            ELSE [procs EXCEPT ![p].pc = "lg_save", ![p].obj = CHOOSE s \in found : TRUE]
        /\ UNCHANGED <<GestureLog, PresentationSession, clock, uuids, auth_user, resp>>

\* session.save(), then the success response
LgSave(p) ==
    /\ procs[p].pc = "lg_save"
    /\ PresentationSession' =
            SessionSave(PresentationSession, Increment(procs[p].obj), clock + 1)
    /\ clock' = clock + 1
    /\ procs' = [procs EXCEPT ![p].pc = "done", ![p].status = 200, ![p].outcome = "success"]
    /\ UNCHANGED <<GestureLog, uuids, auth_user, resp>>

\* presentation_view: the SELECT of get_or_create
PvGet(p, user, arg) ==
    LET fresh == arg = Absent
        session_id == IF fresh THEN Uuid(uuids + 1) ELSE arg
        found == SessionMatches(PresentationSession, session_id)
    IN  /\ procs[p].pc = "idle"
        /\ uuids' = IF fresh THEN uuids + 1 ELSE uuids
        /\ procs' = [procs EXCEPT ![p] =
                IF found # {}
                THEN Proc("done", "presentation_view", user, session_id,
                          CHOOSE s \in found : TRUE, 200, "fetched", Null)
                ELSE Proc("pv_create", "presentation_view", user, session_id, Null, 0, "", Null)]
        /\ UNCHANGED <<GestureLog, PresentationSession, clock, auth_user, resp>>

\* the INSERT of get_or_create: refused when the session_id exists by now
PvCreate(p) ==
    LET o == NewSession(Uuid(uuids + 1), procs[p].key, ViewSessionDefaults(procs[p].user),
                        clock + 1)
    IN  /\ procs[p].pc = "pv_create"
        /\ IF UniqueViolation(PresentationSession, procs[p].key)
           THEN /\ procs' = [procs EXCEPT ![p].pc = "pv_reget"]
                /\ UNCHANGED <<PresentationSession, clock, uuids>>
           ELSE /\ PresentationSession' = PresentationSession \cup {o}
                /\ clock' = clock + 1
                /\ uuids' = uuids + 1
                /\ procs' = [procs EXCEPT ![p].pc = "done", ![p].obj = o,
                                          ![p].status = 200, ![p].outcome = "created"]
        /\ UNCHANGED <<GestureLog, auth_user, resp>>

\* after IntegrityError: the second SELECT of get_or_create
PvReget(p) ==
    LET found == SessionMatches(PresentationSession, procs[p].key)
    IN  /\ procs[p].pc = "pv_reget"
        /\ procs' =
            IF found = {}
            THEN [procs EXCEPT ![p].pc = "done", ![p].status = 500,
                               ![p].outcome = "IntegrityError"]
            ELSE [procs EXCEPT ![p].pc = "done", ![p].obj = CHOOSE s \in found : TRUE,
                               ![p].status = 200, ![p].outcome = "refetched"]
        /\ UNCHANGED <<GestureLog, PresentationSession, clock, uuids, auth_user, resp>>

\* the worker takes the next request
Recycle(p) ==
    /\ procs[p].pc = "done"
    /\ procs' = [procs EXCEPT ![p] = Idle]
    /\ UNCHANGED <<GestureLog, PresentationSession, clock, uuids, auth_user, resp>>

ConcBodies ==
    {Gesture(Str("s1"), Str("fist"), Num(80), Num(100)), Body("bad_syntax", EmptyObj)}

LgCreateConc ==
    /\ Len(GestureLog) < MaxConcLogs
    /\ \E p \in Procs, body \in ConcBodies : LgCreate(p, AnonymousUser, body)
LgGetConc == \E p \in Procs : LgGet(p)
LgSaveConc == \E p \in Procs : LgSave(p)
PvGetConc ==
    /\ uuids < MaxConcLogs + MaxSessions
    /\ \E p \in Procs, user \in {"alice", AnonymousUser}, arg \in {Str("s1"), Absent} :
            PvGet(p, user, arg)
PvCreateConc ==
    \E p \in Procs :
        /\ UniqueViolation(PresentationSession, procs[p].key)
              \/ Cardinality(PresentationSession) < MaxSessions
        /\ PvCreate(p)
PvRegetConc == \E p \in Procs : PvReget(p)
RecycleConc == \E p \in Procs : Recycle(p)

NextConc ==
    \/ LgCreateConc
    \/ LgGetConc
    \/ LgSaveConc
    \/ PvGetConc
    \/ PvCreateConc
    \/ PvRegetConc
    \/ RecycleConc

SpecConc == Init /\ [][NextConc]_vars

\* C5: at most one PresentationSession row per session_id, however the
\* presentation_view requests interleave; a request for a session_id that has a
\* row creates none and ends holding that row.
C5_Unique ==
    \A s, t \in PresentationSession : s.session_id = t.session_id => s = t
C5_Resolved ==
    \A p \in Procs :
        (procs[p].op = "presentation_view" /\ procs[p].pc = "done")
            => /\ procs[p].status = 200
               /\ procs[p].obj.session_id = procs[p].key
               /\ \E s \in PresentationSession : s.id = procs[p].obj.id
C5_PvSteps ==
    \A p \in Procs :
        (procs[p].pc \in {"idle", "pv_create", "pv_reget"}
            /\ procs'[p].op = "presentation_view" /\ procs'[p] # procs[p]
            /\ SessionsWith(procs'[p].key) # {})
                => PresentationSession' = PresentationSession
\* C5: session_id stays unique, every finished presentation_view holds the
\* stored row of its session_id, and none creates a row for an id that has one.
C5_OneRowPerSessionId == []C5_Unique /\ []C5_Resolved /\ [][C5_PvSteps]_vars

\* two requests for s1 both missed it; one created it, the other's INSERT was
\* refused and it fetched the row of the first
C5_Witness ==
    \E p, q \in Procs :
        /\ procs[p].pc = "done" /\ procs[p].outcome = "created"
        /\ procs[q].pc = "done" /\ procs[q].outcome = "refetched"
        /\ procs[p].key = Str("s1") /\ procs[q].key = Str("s1")
        /\ procs[q].obj.id = procs[p].obj.id
        /\ Cardinality(SessionsWith(Str("s1"))) = 1

\* C9: session.save() writes the count the request read, plus one, over
\* whatever is stored: the last save wins, so of two interleaved log_gesture
\* requests for a session one increment can be lost; the count never exceeds
\* the number of gestures logged for the session.
C9_Save ==
    \A p \in Procs :
        (procs[p].pc = "lg_save" /\ procs'[p].pc = "done")
            => \E s \in PresentationSession' :
                /\ s.id = procs[p].obj.id
                /\ s.gesture_count = procs[p].obj.gesture_count + 1
C9_AtMost ==
    \A s \in PresentationSession :
        s.gesture_count <= Cardinality(LogsOf(s.session_id))
\* C9: every save writes the count its request read plus one, and the count
\* never exceeds the number of gestures logged for the session.
C9_LastSaveWins == [][C9_Save]_vars /\ []C9_AtMost

\* both requests answered success and both rows are stored, yet the count is
\* one more than the count both had read
C9_Witness ==
    \E p, q \in Procs :
        /\ p # q
        /\ procs[p].pc = "done" /\ procs[q].pc = "done"
        /\ procs[p].op = "log_gesture" /\ procs[q].op = "log_gesture"
        /\ procs[p].status = 200 /\ procs[q].status = 200
        /\ procs[p].obj # Null /\ procs[q].obj # Null
        /\ procs[p].obj.id = procs[q].obj.id
        /\ procs[p].obj.gesture_count = procs[q].obj.gesture_count
        /\ Indexes(procs[p].log_id) # {} /\ Indexes(procs[q].log_id) # {}
        /\ \E s \in PresentationSession :
            /\ s.id = procs[p].obj.id
            /\ s.gesture_count = procs[p].obj.gesture_count + 1
            /\ Cardinality(LogsOf(s.session_id)) = 2

\* ------------------------------------------------------------------ SpecSeed
\* setup_demo, one statement per step, beside the requests of a web worker.

\* the command's memory: the session object, the rows written, the draws
SeedState(session, i, run) == [session |-> session, i |-> i, run |-> run]

\* User.objects.get_or_create(username='demo', ...), set_password and save
SdUser(p, run) ==
    /\ procs[p].pc = "idle"
    /\ auth_user' = auth_user \cup {"demo"}
    /\ procs' = [procs EXCEPT ![p] =
            Proc("sd_get", "setup_demo", "demo", DemoSession, SeedState(Null, 0, run), 0, "",
                 Null)]
    /\ UNCHANGED <<GestureLog, PresentationSession, clock, uuids, resp>>

\* the SELECT of PresentationSession.objects.get_or_create
SdGet(p) ==
    LET found == SessionMatches(PresentationSession, procs[p].key)
    IN  /\ procs[p].pc = "sd_get"
        /\ procs' =
            IF found # {}
            THEN [procs EXCEPT ![p].pc = "sd_insert",
                               ![p].obj.session = CHOOSE s \in found : TRUE]
            ELSE [procs EXCEPT ![p].pc = "sd_create"]
        /\ UNCHANGED <<GestureLog, PresentationSession, clock, uuids, auth_user, resp>>

\* the INSERT of get_or_create: refused when the session_id exists by now
SdCreate(p) ==
    LET o == NewSession(Uuid(uuids + 1), procs[p].key, DemoDefaults, clock + 1)
    IN  /\ procs[p].pc = "sd_create"
        /\ IF UniqueViolation(PresentationSession, procs[p].key)
           THEN /\ procs' = [procs EXCEPT ![p].pc = "sd_reget"]
                /\ UNCHANGED <<PresentationSession, clock, uuids>>
           ELSE /\ PresentationSession' = PresentationSession \cup {o}
                /\ clock' = clock + 1
                /\ uuids' = uuids + 1
                /\ procs' = [procs EXCEPT ![p].pc = "sd_insert", ![p].obj.session = o]
        /\ UNCHANGED <<GestureLog, auth_user, resp>>

\* after IntegrityError: the second SELECT of get_or_create
SdReget(p) ==
    LET found == SessionMatches(PresentationSession, procs[p].key)
    IN  /\ procs[p].pc = "sd_reget"
        /\ procs' =
            IF found = {}
            THEN [procs EXCEPT ![p].pc = "done", ![p].status = 1,
                               ![p].outcome = "IntegrityError"]
            ELSE [procs EXCEPT ![p].pc = "sd_insert",
                               ![p].obj.session = CHOOSE s \in found : TRUE]
        /\ UNCHANGED <<GestureLog, PresentationSession, clock, uuids, auth_user, resp>>

\* one turn of the loop: GestureLog.objects.create(...)
SdInsert(p) ==
    LET o == procs[p].obj
        row == NewLogRow(Uuid(uuids + 1), "demo",
                         DemoKwargs(o.session, DemoRun(o.run)[o.i + 1]), clock + 1)
    IN  /\ procs[p].pc = "sd_insert"
        /\ o.i < DemoRows
        /\ GestureLog' = Append(GestureLog, row)
        /\ clock' = clock + 1
        /\ uuids' = uuids + 1
        /\ procs' = [procs EXCEPT ![p].obj.i = o.i + 1]
        /\ UNCHANGED <<PresentationSession, auth_user, resp>>

\* after the loop: session.gesture_count = 50 and session.save()
SdSave(p) ==
    LET o == procs[p].obj
    IN  /\ procs[p].pc = "sd_insert"
        /\ o.i = DemoRows
        /\ PresentationSession' =
                SessionSave(PresentationSession,
                            [o.session EXCEPT !.gesture_count = DemoCount], clock + 1)
        /\ clock' = clock + 1
        /\ procs' = [procs EXCEPT ![p].pc = "done", ![p].outcome = "seeded"]
        /\ UNCHANGED <<GestureLog, uuids, auth_user, resp>>

\* the command runs in p1, the web worker's requests in p2
SdUserSeed ==
    /\ SeederRuns < MaxDemoRuns
    /\ \E run \in {0, 1} : SdUser("p1", run)
SdGetSeed == SdGet("p1")
SdCreateSeed == SdCreate("p1")
SdRegetSeed == SdReget("p1")
SdInsertSeed == SdInsert("p1")
SdSaveSeed == SdSave("p1")
LgCreateSeed ==
    /\ Cardinality({i \in DOMAIN GestureLog : GestureLog[i].user = NoUser}) < MaxSeedLogs
    /\ LgCreate("p2", AnonymousUser, Gesture(DemoSession, Str("fist"), Num(80), Num(100)))
PvGetSeed ==
    /\ PresentationSession = {}
    /\ PvGet("p2", AnonymousUser, DemoSession)

NextSeed ==
    \/ SdUserSeed
    \/ SdGetSeed
    \/ SdCreateSeed
    \/ SdRegetSeed
    \/ SdInsertSeed
    \/ SdSaveSeed
    \/ LgCreateSeed
    \/ LgGetConc
    \/ LgSaveConc
    \/ PvGetSeed
    \/ PvCreateConc
    \/ PvRegetConc
    \/ RecycleConc

SpecSeed == Init /\ [][NextSeed]_vars

\* ------------------------------------------------------------------ SpecAnon
\* Sequential requests where a session named 'anonymous' can exist.

PresentationViewAnon ==
    \E user \in {"alice", AnonymousUser}, arg \in {Str("anonymous"), Str("s1")} :
        /\ SessionMatches(PresentationSession, arg) = {}
              => Cardinality(PresentationSession) < MaxSessions
        /\ presentation_view(user, arg)

NextAnon ==
    \/ LogGesture
    \/ PresentationViewAnon

SpecAnon == Init /\ [][NextAnon]_vars

\* C11: a successful log_gesture request increments the gesture_count of the
\* session whose session_id is the one stored on the row it created, the
\* default 'anonymous' of a body without session_id included.
C11_Step ==
    \A body \in Bodies :
        (IsLogGesture(body) /\ resp'.status = 200)
            => \A s \in PresentationSession :
                s.session_id = GestureLog'[Len(GestureLog')].session_id
                    => \E t \in PresentationSession' :
                        /\ t.id = s.id
                        /\ t.gesture_count = s.gesture_count + 1
C11_StoredSessionIsCounted == [][C11_Step]_vars

\* ------------------------------------------------------------------ SpecRace
\* session_stats, one query per step, beside concurrent log_gesture requests.

\* session_stats up to logs.count(): the refusals, the missing session_id and
\* the zeroed answer end the request here
StCount(p, user, throttled, session_id) ==
    LET refusal == Refusal(user, "GET", throttled)
        total == Len(Filter(queryset, session_id))
        zero == Stats(0, <<>>)
    IN  /\ procs[p].pc = "idle"
        /\ IF refusal # 0
           THEN /\ procs' = [procs EXCEPT ![p] =
                        Proc("done", "session_stats", user, Null, Null, refusal, "refused",
                             Null)]
                /\ resp' = Response("session_stats", user, Null, refusal,
                                    RefusalPayload(refusal))
           ELSE IF session_id \in {Absent, Str("")}
           THEN /\ procs' = [procs EXCEPT ![p] =
                        Proc("done", "session_stats", user, session_id, Null, 400,
                             "session_id required", Null)]
                /\ resp' = Response("session_stats", user, session_id, 400,
                                    [error |-> "session_id required"])
           ELSE IF total = 0
           THEN /\ procs' = [procs EXCEPT ![p] =
                        Proc("done", "session_stats", user, session_id,
                             [total |-> 0, rows |-> <<>>, stats |-> zero], 200, "stats", Null)]
                /\ resp' = Response("session_stats", user, session_id, 200, zero)
           ELSE /\ procs' = [procs EXCEPT ![p] =
                        Proc("st_iter", "session_stats", user, session_id,
                             [total |-> total, rows |-> <<>>, stats |-> zero], 0, "", Null)]
                /\ UNCHANGED resp
        /\ UNCHANGED <<GestureLog, PresentationSession, clock, uuids, auth_user>>

\* for log in logs: the second query, whose rows the sums reuse; then the response
StIterate(p) ==
    LET rows == Filter(queryset, procs[p].key)
        stats == Stats(procs[p].obj.total, rows)
    IN  /\ procs[p].pc = "st_iter"
        /\ procs' = [procs EXCEPT ![p].pc = "done", ![p].status = 200,
                                  ![p].outcome = "stats",
                                  ![p].obj = [total |-> procs[p].obj.total, rows |-> rows,
                                              stats |-> stats]]
        /\ resp' = Response("session_stats", procs[p].user, procs[p].key, 200, stats)
        /\ UNCHANGED <<GestureLog, PresentationSession, clock, uuids, auth_user>>

RaceBodies ==
    {Gesture(Str("s1"), Str("fist"), Num(80), Num(100)),
     Gesture(Str("s1"), Str("ok"), Num(90), NumHalf(60))}

LgCreateRace ==
    /\ Len(GestureLog) < MaxRaceLogs
    /\ \E p \in Procs, body \in RaceBodies : LgCreate(p, AnonymousUser, body)
StCountRace ==
    \E p \in Procs, c \in RestCallers, session_id \in {Str("s1"), Absent} :
        StCount(p, c[1], c[2], session_id)
StIterateRace == \E p \in Procs : StIterate(p)

NextRace ==
    \/ LgCreateRace
    \/ LgGetConc
    \/ StCountRace
    \/ StIterateRace
    \/ RecycleConc

SpecRace == Init /\ [][NextRace]_vars

RECURSIVE SumCounts(_)
SumCounts(counts) ==
    IF DOMAIN counts = {} THEN 0
    ELSE LET t == CHOOSE x \in DOMAIN counts : TRUE
         IN  counts[t] + SumCounts([x \in DOMAIN counts \ {t} |-> counts[x]])

\* C12: every served session_stats response is consistent with itself: the
\* counts of gesture_types add up to total_gestures, and each average is the
\* sum over exactly total_gestures rows divided by total_gestures (the count
\* query and the iteration saw the same rows).
C12_StatsConsistent ==
    \A p \in Procs :
        (procs[p].op = "session_stats" /\ procs[p].pc = "done" /\ procs[p].status = 200)
            => LET o == procs[p].obj
               IN  /\ SumCounts(o.stats.gesture_types) = o.stats.total_gestures
                   /\ Len(o.rows) = o.stats.total_gestures
                   /\ o.stats.total_gestures > 0 =>
                        /\ o.stats.avg_confidence.den = Len(o.rows)
                        /\ o.stats.avg_latency.den = Len(o.rows)

====
